---- MODULE Spec2Model ----
(***************************************************************************)
(* Step-driven graph-search visualizers: BFS.py, ucs.py, astar.py and      *)
(* HILLCLIMB.py.  Each file holds one engine object (SearchTree /          *)
(* HillClimbingSim) and an event loop (main) that maps the pointer and the *)
(* keys SPACE / R onto handle_click, step and reset_search; the key N      *)
(* (a new graph) is an action of NewGraphSpec.                             *)
(*                                                                         *)
(* The engine object is modelled as a record t (see Self); every method is *)
(* an operator from records to records, translated statement by statement, *)
(* and every event handler of main is one action that applies the methods  *)
(* it calls.  Costs of the A* engine are kept in tenths (astar.py rounds   *)
(* the heuristic to one decimal), so g, h and f are integers there.        *)
(***************************************************************************)
EXTENDS Integers, Sequences, FiniteSets, TLC

VARIABLES
    alg,            \* which program runs: "bfs", "ucs", "astar" or "hc"
    nodes,          \* self.nodes: the list of node ids
    edges,          \* node.edges / node.children / node.neighbors: list of <<child, weight>>
    pos,            \* node.x, node.y
    score,          \* HILLCLIMB Node.score
    start_node, goal_node,
    frontier,       \* BFS queue / UCS priority_queue / A* open_list
    state,          \* node.state
    g,              \* UCS node.g_cost, A* node.g
    h, f,           \* A* node.h and node.f
    parent,         \* node.parent
    is_current, in_final_path, is_start, is_goal,
    running, completed, found, message,
    current_node, best_neighbor, step_stage,   \* HillClimbingSim fields
    last_op         \* the event main handled last (observation only)

vars == <<alg, nodes, edges, pos, score, start_node, goal_node, frontier, state,
          g, h, f, parent, is_current, in_final_path, is_start, is_goal,
          running, completed, found, message, current_node, best_neighbor,
          step_stage, last_op>>

(***************************************************************************)
(* Bounds of the model and constants of the program.                       *)
(***************************************************************************)
\* edge weights of the three-node graphs range over 0..MaxWeight
MaxWeight == 1
\* edge weights of the four-node diamond graphs range over 0..MaxDiamondWeight
MaxDiamondWeight == 4
\* float('inf'): larger than every path cost the bounds allow
Inf == 100000
\* A* costs are counted in tenths: round(dist / 15.0, 1)
Tenths == 10
\* no node: Python None
None == -1
\* Node objects are numbered slot by slot: the objects that one call of
\* generate_tree creates are SlotSize * k + id for a slot k, so that the
\* objects of a replaced graph that are still referenced stay apart from
\* those of the graph in self.nodes
SlotSize == 4
SlotOf(n) == n \div SlotSize
\* node.id
NodeId(n) == n % SlotSize

\* the 4-tuple standing for a formatted status message
Msg(text, a, b, c) == <<text, a, b, c>>

\* the set of elements of a list
Elems(q) == {q[i] : i \in DOMAIN q}

\* `x in list`
InList(x, q) == \E i \in DOMAIN q : q[i] = x

(***************************************************************************)
(* list.sort(key=...): Python's sort is stable, so nodes with equal keys   *)
(* keep their relative order.  key is a function node -> number.           *)
(***************************************************************************)
\* the place entry i takes: after every entry with a smaller key and after
\* the earlier entries with the same key
RankIn(q, key, i) ==
    1 + Cardinality({j \in DOMAIN q : key[q[j]] < key[q[i]]})
      + Cardinality({j \in DOMAIN q : j < i /\ key[q[j]] = key[q[i]]})

\* a sort that leaves the list as it is
SortBy_unsorted(q, key) == q

SortBy(q, key) ==
    [r \in DOMAIN q |-> q[CHOOSE i \in DOMAIN q : RankIn(q, key, i) = r]]

(***************************************************************************)
(* The engine object as a record.                                          *)
(***************************************************************************)
Self ==
    [alg |-> alg, nodes |-> nodes, edges |-> edges, pos |-> pos, score |-> score,
     start_node |-> start_node, goal_node |-> goal_node, frontier |-> frontier,
     state |-> state, g |-> g, h |-> h, f |-> f, parent |-> parent,
     is_current |-> is_current, in_final_path |-> in_final_path,
     is_start |-> is_start, is_goal |-> is_goal,
     running |-> running, completed |-> completed, found |-> found,
     message |-> message, current_node |-> current_node,
     best_neighbor |-> best_neighbor, step_stage |-> step_stage]

\* the engine object becomes t
Becomes(t) ==
    /\ alg' = t.alg /\ nodes' = t.nodes /\ edges' = t.edges /\ pos' = t.pos
    /\ score' = t.score
    /\ start_node' = t.start_node /\ goal_node' = t.goal_node
    /\ frontier' = t.frontier /\ state' = t.state
    /\ g' = t.g /\ h' = t.h /\ f' = t.f /\ parent' = t.parent
    /\ is_current' = t.is_current /\ in_final_path' = t.in_final_path
    /\ is_start' = t.is_start /\ is_goal' = t.is_goal
    /\ running' = t.running /\ completed' = t.completed /\ found' = t.found
    /\ message' = t.message /\ current_node' = t.current_node
    /\ best_neighbor' = t.best_neighbor /\ step_stage' = t.step_stage

NodeSet(t) == Elems(t.nodes)

(***************************************************************************)
(* Node.reset and reconstruct_path, the same in BFS.py, ucs.py, astar.py.  *)
(***************************************************************************)
\* Node.reset of BFS.py: state, parent, is_current, in_final_path
BFS_Node_reset(t, n) ==
    [t EXCEPT !.state[n] = "unvisited", !.parent[n] = None,
              !.is_current[n] = FALSE, !.in_final_path[n] = FALSE]

\* a Node.reset that leaves g_cost as the last run set it
UCS_Node_reset_keeps_cost(t, n) ==
    [t EXCEPT !.state[n] = "unvisited", !.parent[n] = None,
              !.is_current[n] = FALSE, !.in_final_path[n] = FALSE]

\* Node.reset of ucs.py: also g_cost = inf
UCS_Node_reset(t, n) ==
    [t EXCEPT !.state[n] = "unvisited", !.parent[n] = None, !.g[n] = Inf,
              !.is_current[n] = FALSE, !.in_final_path[n] = FALSE]

\* Node.reset of astar.py: also g = inf, h = 0, f = inf
AStar_Node_reset(t, n) ==
    [t EXCEPT !.state[n] = "unvisited", !.parent[n] = None, !.g[n] = Inf,
              !.h[n] = 0, !.f[n] = Inf,
              !.is_current[n] = FALSE, !.in_final_path[n] = FALSE]

\* `for node in self.nodes: node.reset()`
RECURSIVE ResetAll(_, _)
ResetAll(t, i) ==
    IF i > Len(t.nodes) THEN t
    ELSE LET n == t.nodes[i]
             t1 == CASE t.alg = "bfs" -> BFS_Node_reset(t, n)
                     [] t.alg = "ucs" -> UCS_Node_reset(t, n)
                     [] OTHER -> AStar_Node_reset(t, n)
         IN  ResetAll(t1, i + 1)

\* a reconstruct_path that marks the node it is given and stops
reconstruct_path_one(t, temp) ==
    [t EXCEPT !.in_final_path[temp] = TRUE]

\* reconstruct_path: `while temp: temp.in_final_path = True; temp = temp.parent`.
\* On a cyclic parent chain the loop of the code never ends; the walk here
\* stops at the first node it meets again (ParentChainsAcyclic shows that no
\* reachable state has such a chain).
RECURSIVE reconstruct_path(_, _)
reconstruct_path(t, temp) ==
    IF temp = None \/ t.in_final_path[temp] THEN t
    ELSE reconstruct_path([t EXCEPT !.in_final_path[temp] = TRUE], t.parent[temp])

\* `current.is_current = True` without clearing the previous highlight
MarkCurrentOnly(t, current) ==
    [t EXCEPT !.is_current[current] = TRUE]

\* the marking of the node popped, taking its start flag away as well
MarkCurrent_unsets_start(t, current) ==
    [t EXCEPT !.is_current = [n \in DOMAIN t.is_current |->
                                IF n = current THEN TRUE
                                ELSE IF n \in NodeSet(t) THEN FALSE ELSE @[n]],
              !.is_start[current] = FALSE]

\* `for n in self.nodes: n.is_current = False` then `current.is_current = True`
MarkCurrent(t, current) ==
    [t EXCEPT !.is_current = [n \in DOMAIN t.is_current |->
                                IF n = current THEN TRUE
                                ELSE IF n \in NodeSet(t) THEN FALSE ELSE @[n]]]

\* the frontier left as it is by reset_search
queue_kept(q) == q

\* `self.queue.clear()`, `self.priority_queue = []`, `self.open_list = []`
queue_clear(q) == <<>>

(***************************************************************************)
(* BFS.py: SearchTree                                                      *)
(***************************************************************************)
\* reset_search (BFS.py 173-185)
BFS_reset_search(t) ==
    LET t0 == ResetAll([t EXCEPT !.frontier = queue_clear(@), !.running = FALSE,
                                 !.completed = FALSE, !.found = FALSE,
                                 !.message = Msg("Press SPACE to Step, 'R' to Full Reset", 0, 0, 0)], 1)
    IN  IF t0.start_node # None /\ t0.goal_node # None
        THEN [t0 EXCEPT !.frontier = Append(@, t0.start_node),
                        !.state[t0.start_node] = "frontier",
                        !.message = Msg("Ready. Queue initialized. Press SPACE.", 0, 0, 0)]
        ELSE t0

\* BFS.py 220 without the test of the status
BFS_discovers_unqueued(t, child) == ~InList(child, t.frontier)

\* BFS.py 220 with the `not` dropped
BFS_discovers_never(t, child) ==
    t.state[child] = "unvisited" /\ InList(child, t.frontier)

\* BFS.py 220 testing only membership in the queue of the moment, so that a
\* child waiting in the queue is taken again
BFS_discovers_again(t, child) ==
    t.state[child] \in {"unvisited", "frontier"}

\* `if child.state == 'unvisited' and child not in self.queue` (BFS.py 220)
BFS_discovers(t, child) ==
    t.state[child] = "unvisited" /\ ~InList(child, t.frontier)

\* the loop `for child in current.children` (BFS.py 219-224), from edge i on;
\* yields the engine and added_count
RECURSIVE BFS_enqueue_children(_, _, _, _)
BFS_enqueue_children(t, current, i, added_count) ==
    IF i > Len(t.edges[current]) THEN [t |-> t, count |-> added_count]
    ELSE LET child == t.edges[current][i][1]
         IN  IF BFS_discovers(t, child)
             THEN BFS_enqueue_children(
                      [t EXCEPT !.state[child] = "frontier", !.parent[child] = current,
                                !.frontier = Append(@, child)],
                      current, i + 1, added_count + 1)
             ELSE BFS_enqueue_children(t, current, i + 1, added_count)

\* step without the early return
StepNeverReturns(t) == FALSE

\* `if self.completed: return` (BFS.py 191, ucs.py 181)
StepReturnsWhenCompleted(t) == t.completed

\* step (BFS.py 187-226)
BFS_step(t) ==
    LET t1 == IF ~t.running /\ ~t.completed THEN [t EXCEPT !.running = TRUE] ELSE t
    IN  IF StepReturnsWhenCompleted(t1) THEN t1
        ELSE IF t1.frontier = <<>>
        THEN [t1 EXCEPT !.message = Msg("Queue Empty! Goal not found.", 0, 0, 0),
                        !.completed = TRUE]
        ELSE LET current == Head(t1.frontier)
                 t2 == [MarkCurrent(t1, current) EXCEPT !.frontier = Tail(t1.frontier),
                                                       !.state[current] = "visited"]
             IN  IF current = t2.goal_node
                 THEN reconstruct_path(
                          [t2 EXCEPT !.found = TRUE, !.completed = TRUE,
                                     !.message = Msg("Goal Found! Path reconstructed.", 0, 0, 0)],
                          current)
                 ELSE LET r == BFS_enqueue_children(t2, current, 1, 0)
                      IN  [r.t EXCEPT !.message = Msg("Visited Node. Added neighbors.", NodeId(current), r.count, 0)]

\* handle_click without `if self.start_node: self.start_node.is_start = False`
\* and its like for the goal
BFS_handle_click_keeps_flag(t, node, button) ==
    IF button = 1
    THEN BFS_reset_search([t EXCEPT !.is_start[node] = TRUE, !.start_node = node])
    ELSE IF button = 3
    THEN BFS_reset_search([t EXCEPT !.is_goal[node] = TRUE, !.goal_node = node])
    ELSE t

\* the branches of handle_click for the node hit (BFS.py 161-170, ucs.py 152-161):
\* reset_search only runs inside the two button branches
BFS_handle_click(t, node, button) ==
    IF button = 1
    THEN BFS_reset_search(
             [t EXCEPT !.is_start = [n \in DOMAIN @ |->
                                       IF n = node THEN TRUE
                                       ELSE IF n = t.start_node THEN FALSE ELSE @[n]],
                       !.start_node = node])
    ELSE IF button = 3
    THEN BFS_reset_search(
             [t EXCEPT !.is_goal = [n \in DOMAIN @ |->
                                      IF n = node THEN TRUE
                                      ELSE IF n = t.goal_node THEN FALSE ELSE @[n]],
                       !.goal_node = node])
    ELSE t

(***************************************************************************)
(* ucs.py: SearchTree                                                      *)
(***************************************************************************)
\* reset_search (ucs.py 164-176)
UCS_reset_search(t) ==
    LET t0 == ResetAll([t EXCEPT !.frontier = queue_clear(@), !.running = FALSE,
                                 !.completed = FALSE,
                                 !.message = Msg("Press SPACE to Step", 0, 0, 0)], 1)
    IN  IF t0.start_node # None /\ t0.goal_node # None
        THEN [t0 EXCEPT !.g[t0.start_node] = 0,
                        !.frontier = Append(@, t0.start_node),
                        !.state[t0.start_node] = "frontier",
                        !.message = Msg("Ready. Priority Queue Init. Press SPACE.", 0, 0, 0)]
        ELSE t0

\* ucs.py 219 with `<=`: an equal cost counts as an improvement
UCS_improves_or_equal(new_cost, g_cost) == new_cost <= g_cost

\* the comparison of ucs.py 219 turned around
UCS_improves_flipped(new_cost, g_cost) == new_cost > g_cost

\* `if new_cost < child.g_cost` (ucs.py 219)
UCS_improves(new_cost, g_cost) == new_cost < g_cost

\* one pass of the loop body (ucs.py 209-225) for edge <<child, weight>>
UCS_relax(t, current, child, weight) ==
    LET new_cost == t.g[current] + weight
    IN  IF t.state[child] = "unvisited" /\ ~InList(child, t.frontier)
        THEN [t |-> [t EXCEPT !.g[child] = new_cost, !.parent[child] = current,
                              !.state[child] = "frontier",
                              !.frontier = Append(@, child)],
              count |-> 1]
        ELSE IF t.state[child] = "frontier" \/ t.state[child] = "visited"
        THEN IF UCS_improves(new_cost, t.g[child])
             THEN [t |-> IF t.state[child] = "visited"
                         THEN [t EXCEPT !.g[child] = new_cost, !.parent[child] = current,
                                        !.state[child] = "frontier",
                                        !.frontier = Append(@, child)]
                         ELSE [t EXCEPT !.g[child] = new_cost, !.parent[child] = current],
                   count |-> 1]
             ELSE [t |-> t, count |-> 0]
        ELSE [t |-> t, count |-> 0]

\* the loop `for child, weight in current.edges` (ucs.py 208-225), from edge i on
RECURSIVE UCS_expand(_, _, _, _)
UCS_expand(t, current, i, updates) ==
    IF i > Len(t.edges[current]) THEN [t |-> t, count |-> updates]
    ELSE LET e == t.edges[current][i]
             r == UCS_relax(t, current, e[1], e[2])
         IN  UCS_expand(r.t, current, i + 1, updates + r.count)

\* step (ucs.py 178-229)
UCS_step(t) ==
    LET t1 == IF ~t.running /\ ~t.completed THEN [t EXCEPT !.running = TRUE] ELSE t
    IN  IF StepReturnsWhenCompleted(t1) THEN t1
        ELSE IF t1.frontier = <<>>
        THEN [t1 EXCEPT !.message = Msg("Priority Queue Empty! Goal unreachable.", 0, 0, 0),
                        !.completed = TRUE]
        ELSE LET q == SortBy(t1.frontier, t1.g)
                 current == Head(q)
                 t2 == [MarkCurrent(t1, current) EXCEPT !.frontier = Tail(q),
                                                       !.state[current] = "visited"]
             IN  IF current = t2.goal_node
                 THEN reconstruct_path(
                          [t2 EXCEPT !.completed = TRUE,
                                     !.message = Msg("Goal Found! Total Cost", t2.g[current], 0, 0)],
                          current)
                 ELSE LET r == UCS_expand(t2, current, 1, 0)
                      IN  [r.t EXCEPT !.frontier = SortBy(r.t.frontier, r.t.g),
                                      !.message = Msg("expanded Node. Updated neighbors.",
                                                      NodeId(current), r.t.g[current], r.count)]

\* handle_click for the node hit (ucs.py 152-161)
UCS_handle_click(t, node, button) ==
    IF button = 1
    THEN UCS_reset_search(
             [t EXCEPT !.is_start = [n \in DOMAIN @ |->
                                       IF n = node THEN TRUE
                                       ELSE IF n = t.start_node THEN FALSE ELSE @[n]],
                       !.start_node = node])
    ELSE IF button = 3
    THEN UCS_reset_search(
             [t EXCEPT !.is_goal = [n \in DOMAIN @ |->
                                      IF n = node THEN TRUE
                                      ELSE IF n = t.goal_node THEN FALSE ELSE @[n]],
                       !.goal_node = node])
    ELSE t

(***************************************************************************)
(* astar.py: Node.calculate_heuristic and SearchTree                       *)
(***************************************************************************)
\* round(sqrt(d2) / 15.0, 1) in tenths, d2 the squared distance: the largest k
\* with k - 1/2 <= (2/3) * sqrt(d2), that is k = 0 or (6k - 3)^2 <= 16 * d2
\* (no integer d2 lies exactly on a rounding boundary)
RECURSIVE RoundedTenths(_, _)
RoundedTenths(d2, k) ==
    IF (6 * (k + 1) - 3) * (6 * (k + 1) - 3) <= 16 * d2
    THEN RoundedTenths(d2, k + 1)
    ELSE k

\* calculate_heuristic (astar.py 53-56): the value assigned to self.h
calculate_heuristic(t, n, goal) ==
    LET dx == t.pos[n][1] - t.pos[goal][1]
        dy == t.pos[n][2] - t.pos[goal][2]
    IN  RoundedTenths(dx * dx + dy * dy, 0)

\* reset_search (astar.py 151-169)
AStar_reset_search(t) ==
    LET t0 == ResetAll([t EXCEPT !.frontier = queue_clear(@), !.running = FALSE,
                                 !.completed = FALSE,
                                 !.message = Msg("Press SPACE to Step", 0, 0, 0)], 1)
    IN  IF t0.start_node # None /\ t0.goal_node # None
        THEN LET t1 == [t0 EXCEPT !.h = [n \in DOMAIN @ |->
                                           IF n \in NodeSet(t0)
                                           THEN calculate_heuristic(t0, n, t0.goal_node)
                                           ELSE @[n]]]
             IN  [t1 EXCEPT !.g[t1.start_node] = 0,
                            !.f[t1.start_node] = 0 + t1.h[t1.start_node],
                            !.frontier = Append(@, t1.start_node),
                            !.state[t1.start_node] = "frontier",
                            !.message = Msg("Heuristics calculated. Open List Init. Press SPACE.", 0, 0, 0)]
        ELSE t0

\* astar.py 198 with `<=`: an equal cost counts as an improvement
AStar_improves_or_equal(tentative_g, child_g) == tentative_g <= child_g

\* `if tentative_g < child.g` (astar.py 198)
AStar_improves(tentative_g, child_g) == tentative_g < child_g

\* the loop body of astar.py 196-211 without `child.f = child.g + child.h`
AStar_relax_keeps_f(t, current, child, weight) ==
    LET tentative_g == t.g[current] + weight * Tenths
    IN  IF AStar_improves(tentative_g, t.g[child])
        THEN LET t1 == [t EXCEPT !.parent[child] = current, !.g[child] = tentative_g]
             IN  IF t1.state[child] = "unvisited"
                 THEN [t |-> [t1 EXCEPT !.state[child] = "frontier",
                                        !.frontier = Append(@, child)],
                       count |-> 1]
                 ELSE IF t1.state[child] = "frontier"
                 THEN [t |-> t1, count |-> 1]
                 ELSE [t |-> t1, count |-> 0]
        ELSE [t |-> t, count |-> 0]

\* one pass of the loop body (astar.py 196-211) for edge <<child, weight>>;
\* the weight is an integer, the costs are in tenths
AStar_relax(t, current, child, weight) ==
    LET tentative_g == t.g[current] + weight * Tenths
    IN  IF AStar_improves(tentative_g, t.g[child])
        THEN LET t1 == [t EXCEPT !.parent[child] = current, !.g[child] = tentative_g,
                                 !.f[child] = tentative_g + t.h[child]]
             IN  IF t1.state[child] = "unvisited"
                 THEN [t |-> [t1 EXCEPT !.state[child] = "frontier",
                                        !.frontier = Append(@, child)],
                       count |-> 1]
                 ELSE IF t1.state[child] = "frontier"
                 THEN [t |-> t1, count |-> 1]
                 ELSE [t |-> t1, count |-> 0]
        ELSE [t |-> t, count |-> 0]

\* the loop `for child, weight in current.edges` (astar.py 195-211), from edge i on
RECURSIVE AStar_expand(_, _, _, _)
AStar_expand(t, current, i, updates) ==
    IF i > Len(t.edges[current]) THEN [t |-> t, count |-> updates]
    ELSE LET e == t.edges[current][i]
             r == AStar_relax(t, current, e[1], e[2])
         IN  AStar_expand(r.t, current, i + 1, updates + r.count)

\* `if self.completed or not self.open_list` (astar.py 173)
AStar_step_ends(t) == t.completed \/ t.frontier = <<>>

\* step (astar.py 171-214)
AStar_step(t) ==
    LET t1 == IF ~t.running /\ ~t.completed THEN [t EXCEPT !.running = TRUE] ELSE t
    IN  IF AStar_step_ends(t1)
        THEN [(IF t1.frontier = <<>> /\ ~t1.completed
               THEN [t1 EXCEPT !.message = Msg("No Path Found.", 0, 0, 0)]
               ELSE t1)
              EXCEPT !.completed = TRUE]
        ELSE LET q == SortBy(t1.frontier, t1.f)
                 current == Head(q)
                 t2 == [MarkCurrent(t1, current) EXCEPT !.frontier = Tail(q),
                                                       !.state[current] = "visited"]
             IN  IF current = t2.goal_node
                 THEN reconstruct_path(
                          [t2 EXCEPT !.completed = TRUE,
                                     !.message = Msg("Goal Found! Final Cost", t2.g[current], 0, 0)],
                          current)
                 ELSE LET r == AStar_expand(t2, current, 1, 0)
                      IN  [r.t EXCEPT !.frontier = SortBy(r.t.frontier, r.t.f),
                                      !.message = Msg("Expanded Node. Updated neighbors.",
                                                      NodeId(current), r.t.f[current], r.count)]

\* handle_click for the node hit (astar.py 140-148): reset_search runs for
\* every button
AStar_handle_click(t, node, button) ==
    AStar_reset_search(
        IF button = 1
        THEN [t EXCEPT !.is_start = [n \in DOMAIN @ |->
                                       IF n = node THEN TRUE
                                       ELSE IF n = t.start_node THEN FALSE ELSE @[n]],
                       !.start_node = node]
        ELSE IF button = 3
        THEN [t EXCEPT !.is_goal = [n \in DOMAIN @ |->
                                      IF n = node THEN TRUE
                                      ELSE IF n = t.goal_node THEN FALSE ELSE @[n]],
                       !.goal_node = node]
        ELSE t)

(***************************************************************************)
(* HILLCLIMB.py: HillClimbingSim                                           *)
(***************************************************************************)
\* handle_click for the node hit (HILLCLIMB.py 128-143)
HC_handle_click(t, node) ==
    IF t.running THEN t
    ELSE [t EXCEPT !.state = [n \in DOMAIN @ |-> IF n = node THEN "current" ELSE "default"],
                   !.current_node = node,
                   !.message = Msg("Start set at Node. Press SPACE.", node, t.score[node], 0),
                   !.running = TRUE, !.completed = FALSE, !.step_stage = 1]

\* the loop of HILLCLIMB.py 164-165 run over self.nodes instead of neighbors
HC_mark_everyone(t, cur, i) ==
    [t EXCEPT !.state = [n \in DOMAIN @ |-> "neighbor"]]

\* `for n in neighbors: n.state = 'neighbor'` (HILLCLIMB.py 164-165)
RECURSIVE HC_mark_neighbors(_, _, _)
HC_mark_neighbors(t, cur, i) ==
    IF i > Len(t.edges[cur]) THEN t
    ELSE HC_mark_neighbors([t EXCEPT !.state[t.edges[cur][i][1]] = "neighbor"], cur, i + 1)

\* HILLCLIMB.py 180 with the comparison turned around
HC_is_better_flipped(n_score, current_score) == n_score < current_score

\* HILLCLIMB.py 180 asking for a margin: a neighbor one point higher is not
\* taken for better
HC_is_better_by_two(n_score, current_score) == n_score > current_score + 1

\* HILLCLIMB.py 180 with `>=`: a neighbor of equal score counts as better
HC_is_better_or_equal(n_score, current_score) == n_score >= current_score

\* `if n.score > current_score` (HILLCLIMB.py 180)
HC_is_better(n_score, current_score) == n_score > current_score

\* HILLCLIMB.py 182 with `>=`: the last of the best neighbors is taken
HC_is_higher_or_equal(n_score, highest_score) == n_score >= highest_score

\* `if n.score > highest_score` (HILLCLIMB.py 182)
HC_is_higher(n_score, highest_score) == n_score > highest_score

\* the loop of stage 2 (HILLCLIMB.py 179-186), from neighbor i on; yields the
\* engine, best and highest_score
RECURSIVE HC_evaluate(_, _, _, _, _)
HC_evaluate(t, cur, i, best, highest_score) ==
    IF i > Len(t.edges[cur]) THEN [t |-> t, best |-> best]
    ELSE LET n == t.edges[cur][i][1]
         IN  IF HC_is_better(t.score[n], t.score[cur])
             THEN IF HC_is_higher(t.score[n], highest_score)
                  THEN HC_evaluate([t EXCEPT !.state[n] = "better"], cur, i + 1, n, t.score[n])
                  ELSE HC_evaluate([t EXCEPT !.state[n] = "better"], cur, i + 1, best, highest_score)
             ELSE HC_evaluate([t EXCEPT !.state[n] = "worse"], cur, i + 1, best, highest_score)

\* max(node.score for node in self.nodes)
HC_global_max(t) ==
    CHOOSE m \in {t.score[n] : n \in NodeSet(t)} : \A n \in NodeSet(t) : t.score[n] <= m

\* `if not self.running or self.completed or not self.current_node: return`
HC_step_returns(t) == ~t.running \/ t.completed \/ t.current_node = None

\* step (HILLCLIMB.py 145-221)
HC_step(t) ==
    IF HC_step_returns(t) THEN t
    ELSE LET cur == t.current_node IN
    IF t.step_stage = 1
    THEN LET t1 == [t EXCEPT !.message = Msg("Checking neighbors...", 0, 0, 0),
                             !.state = [n \in DOMAIN @ |-> IF n # cur THEN "default" ELSE @[n]]]
         IN  IF t1.edges[cur] = <<>>
             THEN [t1 EXCEPT !.message = Msg("No neighbors! Stuck.", 0, 0, 0),
                             !.state[cur] = "peak", !.completed = TRUE]
             ELSE [HC_mark_neighbors(t1, cur, 1)
                   EXCEPT !.message = Msg("Found neighbors. Press SPACE to Evaluate.",
                                          Len(t1.edges[cur]), 0, 0),
                          !.step_stage = 2]
    ELSE IF t.step_stage = 2
    THEN LET r == HC_evaluate(t, cur, 1, None, -1)
         IN  [r.t EXCEPT !.best_neighbor = r.best,
                         !.message = IF r.best # None
                                     THEN Msg("Best Move: Node. Higher than current.",
                                              r.best, t.score[r.best], t.score[cur])
                                     ELSE Msg("No neighbors are higher. We are at a Peak.", 0, 0, 0),
                         !.step_stage = 3]
    ELSE IF t.step_stage = 3
    THEN IF t.best_neighbor # None
         THEN [t EXCEPT !.current_node = t.best_neighbor,
                        !.state = [n \in DOMAIN @ |->
                                     IF n = t.best_neighbor THEN "current" ELSE "default"],
                        !.message = Msg("Moved to Node. Press SPACE to continue.",
                                        t.best_neighbor, 0, 0),
                        !.step_stage = 1]
         ELSE [t EXCEPT !.state[cur] = "peak", !.completed = TRUE,
                        !.message = IF t.score[cur] = HC_global_max(t)
                                    THEN Msg("Global Maximum Reached! (Highest Point)", 0, 0, 0)
                                    ELSE Msg("Stuck at Local Max. Global Max is", t.score[cur],
                                             HC_global_max(t), 0)]
    ELSE t

\* the K_r branch of main (HILLCLIMB.py 313-319)
HC_restart(t) ==
    [t EXCEPT !.running = FALSE, !.completed = FALSE, !.current_node = None,
              !.message = Msg("Click any node to Start.", 0, 0, 0),
              !.state = [n \in DOMAIN @ |-> "default"]]

(***************************************************************************)
(* main: the event handlers (BFS.py 349-365, ucs.py 329-340,               *)
(* astar.py 275-284, HILLCLIMB.py 309-321).  A click is given by the node   *)
(* it hits; a click that hits no node changes nothing.                     *)
(***************************************************************************)
reset_search(t) ==
    CASE t.alg = "bfs" -> BFS_reset_search(t)
      [] t.alg = "ucs" -> UCS_reset_search(t)
      [] t.alg = "astar" -> AStar_reset_search(t)
      [] OTHER -> HC_restart(t)

step(t) ==
    CASE t.alg = "bfs" -> BFS_step(t)
      [] t.alg = "ucs" -> UCS_step(t)
      [] t.alg = "astar" -> AStar_step(t)
      [] OTHER -> HC_step(t)

handle_click(t, node, button) ==
    CASE t.alg = "bfs" -> BFS_handle_click(t, node, button)
      [] t.alg = "ucs" -> UCS_handle_click(t, node, button)
      [] t.alg = "astar" -> AStar_handle_click(t, node, button)
      [] OTHER -> HC_handle_click(t, node)

\* main passing every click on to handle_click
ClickAlwaysAllowed(t) == TRUE

\* the guard of main on MOUSEBUTTONDOWN
ClickAllowed(t) ==
    CASE t.alg = "bfs" -> ~t.running /\ ~t.completed
      [] t.alg = "ucs" -> ~t.running /\ ~t.completed
      [] t.alg = "astar" -> ~t.running
      [] OTHER -> TRUE

\* main calling step() on every SPACE
SpaceAlwaysAllowed(t) == TRUE

\* the guard of main on K_SPACE: `if tree.start_node and tree.goal_node`
\* (HILLCLIMB.py calls sim.step() unguarded)
SpaceAllowed(t) ==
    t.alg = "hc" \/ (t.start_node # None /\ t.goal_node # None)

\* the K_SPACE branch of main
OnSpace(t) ==
    IF SpaceAllowed(t) THEN step(t)
    ELSE IF t.alg = "bfs"
    THEN [t EXCEPT !.message = Msg("Err: Select Start and Goal first!", 0, 0, 0)]
    ELSE t

\* the MOUSEBUTTONDOWN branch of main
OnClick(t, node, button) ==
    IF ClickAllowed(t) THEN handle_click(t, node, button) ELSE t

\* the K_r branch of main
OnReset(t) == reset_search(t)

Buttons == {1, 2, 3}

\* start and goal are set
Armed(t) == t.start_node # None /\ t.goal_node # None

\* a search engine with no start or no goal; the hill climber with no run
Idle(t) ==
    IF t.alg = "hc" THEN ~t.running
    ELSE t.start_node = None \/ t.goal_node = None

MouseDown ==
    \E node \in NodeSet(Self), button \in Buttons :
        /\ ClickAllowed(Self)
        /\ alg = "hc" => ~running
        /\ \E t \in {OnClick(Self, node, button)} : Becomes(t)
        /\ last_op' = "click"

KeySpace ==
    /\ \E t \in {OnSpace(Self)} : Becomes(t)
    /\ last_op' = IF completed THEN "step_done"
                  ELSE IF Idle(Self) THEN "step_idle"
                  ELSE "step"

KeyR ==
    /\ \E t \in {OnReset(Self)} : Becomes(t)
    /\ last_op' = "reset"

(***************************************************************************)
(* Initial states: the object as its constructor leaves it, holding a      *)
(* generated graph.  Graphs are directed, without self-loops or parallel   *)
(* edges, on nodes laid out on a line:                                     *)
(*   - BFS: every graph on three nodes, adjacency lists in every order;    *)
(*   - UCS: every graph on three nodes with weights 0..MaxWeight and       *)
(*     adjacency lists in ascending order, and every graph on three nodes  *)
(*     with unit weights and adjacency lists in every order;               *)
(*   - astar.py: every graph on three nodes with unit weights, and the     *)
(*     four-node diamond 0->1, 0->2, 1->3, 2->1, 2->3 whose detour         *)
(*     0->2->1 is free and whose other edges weigh 0..MaxDiamondWeight;    *)
(*   - hill climbing: every symmetric graph on three nodes, with scores    *)
(*     0..MaxScore;                                                        *)
(*   - the graphs of the scenarios: TwoPaths (UCS), LinearChain (BFS and   *)
(*     UCS) and ScoreLine with LineScores (hill climbing).                 *)
(***************************************************************************)
\* the lists of edges to distinct children in C with weights in W
EdgeLists(C, W) ==
    UNION { { s \in [1..k -> C \X W] : \A i, j \in 1..k : i # j => s[i][1] # s[j][1] }
            : k \in 0..Cardinality(C) }

\* those whose children are in ascending order
EdgeListsAsc(C, W) ==
    { s \in EdgeLists(C, W) : \A i, j \in DOMAIN s : i < j => s[i][1] < s[j][1] }

Nodes3 == <<0, 1, 2>>
Nodes4 == <<0, 1, 2, 3>>

\* node positions: three nodes in a row 15 apart; the diamond with node 3 at
\* the origin, node 1 at 15, node 0 at 30 and node 2 at 45
Layout3 == [n \in {0, 1, 2} |-> <<15 * n, 0>>]
Layout4 == [n \in {0, 1, 2, 3} |->
              <<(CASE n = 0 -> 30 [] n = 1 -> 15 [] n = 2 -> 45 [] OTHER -> 0), 0>>]

Graphs3(W) ==
    { [n \in {0, 1, 2} |-> IF n = 0 THEN a ELSE IF n = 1 THEN b ELSE c] :
        a \in EdgeLists({1, 2}, W), b \in EdgeLists({0, 2}, W), c \in EdgeLists({0, 1}, W) }

Graphs3Asc(W) ==
    { [n \in {0, 1, 2} |-> IF n = 0 THEN a ELSE IF n = 1 THEN b ELSE c] :
        a \in EdgeListsAsc({1, 2}, W), b \in EdgeListsAsc({0, 2}, W),
        c \in EdgeListsAsc({0, 1}, W) }

Diamonds ==
    { [n \in {0, 1, 2, 3} |->
         CASE n = 0 -> << <<1, w[1]>>, <<2, 0>> >>
           [] n = 1 -> << <<3, w[2]>> >>
           [] n = 2 -> << <<1, 0>>, <<3, w[3]>> >>
           [] OTHER -> << >>] :
        w \in [1..3 -> 0..MaxDiamondWeight] }

\* two paths of differing cost: 0->1 weight 10, 0->2 weight 1, 2->1 weight 1
TwoPaths ==
    [n \in {0, 1, 2} |->
        CASE n = 0 -> << <<1, 10>>, <<2, 1>> >>
          [] n = 2 -> << <<1, 1>> >>
          [] OTHER -> << >>]

\* the linear chain 0->1->2->3 with weights 1, 1, 1
LinearChain ==
    [n \in {0, 1, 2, 3} |-> IF n < 3 THEN << <<n + 1, 1>> >> ELSE << >>]

\* the line 0 - 1 - 2 of the hill climber, with the scores 5, 10, 3
ScoreLine ==
    [n \in {0, 1, 2} |->
        CASE n = 0 -> << <<1, 1>> >>
          [] n = 1 -> << <<0, 1>>, <<2, 1>> >>
          [] OTHER -> << <<1, 1>> >>]

LineScores == [n \in {0, 1, 2} |-> CASE n = 0 -> 5 [] n = 1 -> 10 [] OTHER -> 3]

\* neighbour lists `neighbor.neighbors.append(node)` keeps symmetric
Symmetric(e) ==
    \A n \in DOMAIN e : \A i \in DOMAIN e[n] : InList(<<n, 1>>, e[e[n][i][1]])

MaxScore == 2

\* Node.__init__ and SearchTree.__init__ / HillClimbingSim.__init__
Constructed(a, ns, e, p, sc, msg) ==
    LET N == Elems(ns) IN
    /\ alg = a /\ nodes = ns /\ edges = e /\ pos = p /\ score = sc
    /\ start_node = None /\ goal_node = None
    /\ frontier = <<>>
    /\ state = [n \in N |-> IF a = "hc" THEN "default" ELSE "unvisited"]
    /\ g = [n \in N |-> Inf] /\ h = [n \in N |-> 0] /\ f = [n \in N |-> Inf]
    /\ parent = [n \in N |-> None]
    /\ is_current = [n \in N |-> FALSE] /\ in_final_path = [n \in N |-> FALSE]
    /\ is_start = [n \in N |-> FALSE] /\ is_goal = [n \in N |-> FALSE]
    /\ running = FALSE /\ completed = FALSE /\ found = FALSE
    /\ message = msg
    /\ current_node = None /\ best_neighbor = None /\ step_stage = 0
    /\ last_op = "init"

NoScore(ns) == [n \in Elems(ns) |-> 0]

InitBFS ==
    \/ \E e \in Graphs3({1}) :
          Constructed("bfs", Nodes3, e, Layout3, NoScore(Nodes3),
                      Msg("Select Start (L-Click) & Goal (R-Click)", 0, 0, 0))
    \/ Constructed("bfs", Nodes4, LinearChain, Layout4, NoScore(Nodes4),
                   Msg("Select Start (L-Click) & Goal (R-Click)", 0, 0, 0))

InitUCS ==
    \/ \E e \in Graphs3Asc(0..MaxWeight) \cup Graphs3({1}) \cup {TwoPaths} :
          Constructed("ucs", Nodes3, e, Layout3, NoScore(Nodes3),
                      Msg("L-Click: Start | R-Click: Goal", 0, 0, 0))
    \/ Constructed("ucs", Nodes4, LinearChain, Layout4, NoScore(Nodes4),
                   Msg("L-Click: Start | R-Click: Goal", 0, 0, 0))

InitAStar ==
    \/ \E e \in Diamonds :
          Constructed("astar", Nodes4, e, Layout4, NoScore(Nodes4),
                      Msg("L-Click: Start | R-Click: Goal", 0, 0, 0))
    \/ \E e \in Graphs3({1}) :
          Constructed("astar", Nodes3, e, Layout3, NoScore(Nodes3),
                      Msg("L-Click: Start | R-Click: Goal", 0, 0, 0))

InitHC ==
    \/ \E e \in Graphs3({1}), sc \in [{0, 1, 2} -> 0..MaxScore] :
          /\ Symmetric(e)
          /\ Constructed("hc", Nodes3, e, Layout3, sc,
                         Msg("Click any node to Start Climbing.", 0, 0, 0))
    \/ Constructed("hc", Nodes3, ScoreLine, Layout3, LineScores,
                   Msg("Click any node to Start Climbing.", 0, 0, 0))

Init == InitBFS \/ InitUCS \/ InitAStar \/ InitHC

Next == MouseDown \/ KeySpace \/ KeyR

Spec == Init /\ [][Next]_vars

\* a step is due: the run is armed (hill climbing: started) and not terminal.
\* In such a state SPACE changes the engine, so <<KeySpace>>_vars is enabled.
StepPending ==
    /\ ~completed
    /\ IF alg = "hc" THEN running ELSE Armed(Self)

\* a run that is stepped again and again and never reset: R is not pressed,
\* and SPACE keeps being pressed while a step is due.  The fairness condition
\* is WF_vars(KeySpace) with ENABLED <<KeySpace>>_vars replaced by the state
\* predicate StepPending that implies it, which makes it no stronger than
\* WF_vars(KeySpace).
NextRun == MouseDown \/ KeySpace

KeepsStepping == []<>(~StepPending) \/ []<><<KeySpace>>_vars

LiveSpec == Init /\ [][NextRun]_vars /\ KeepsStepping

(***************************************************************************)
(* The key N of BFS.py, ucs.py and astar.py: a new graph.  generate_tree   *)
(* builds new Node objects; the objects of the replaced graph live on as   *)
(* long as start_node or goal_node refers to one of them.                  *)
(***************************************************************************)
\* the trees on three nodes with root 0, weights 1..MaxWeight
NewGraphs ==
    { [n \in {0, 1, 2} |-> IF n = 0 THEN << <<1, w[1]>>, <<2, w[2]>> >> ELSE << >>] :
        w \in [1..2 -> 1..MaxWeight] }
    \cup
    { [n \in {0, 1, 2} |-> IF n < 2 THEN << <<n + 1, w[n + 1]>> >> ELSE << >>] :
        w \in [1..2 -> 1..MaxWeight] }

\* generate_tree (BFS.py 111-149, ucs.py 112-146, astar.py 111-134) building
\* the tree e out of new Node objects in slot k: self.nodes is replaced,
\* nothing else of the engine is touched
generate_tree(t, e, k) ==
    LET base == k * SlotSize
        new == {base + i : i \in DOMAIN e}
        Put(F, v) == [n \in DOMAIN F \cup new |-> IF n \in new THEN v ELSE F[n]]
    IN  [t EXCEPT !.nodes = [i \in 1..Cardinality(DOMAIN e) |-> base + i - 1],
                  !.edges = [n \in DOMAIN @ \cup new |->
                               IF n \in new
                               THEN [j \in DOMAIN e[n - base] |->
                                       <<base + e[n - base][j][1], e[n - base][j][2]>>]
                               ELSE @[n]],
                  !.pos = [n \in DOMAIN @ \cup new |->
                             IF n \in new THEN Layout3[n - base] ELSE @[n]],
                  !.score = Put(@, 0), !.state = Put(@, "unvisited"),
                  !.g = Put(@, Inf), !.h = Put(@, 0), !.f = Put(@, Inf),
                  !.parent = Put(@, None),
                  !.is_current = Put(@, FALSE), !.in_final_path = Put(@, FALSE),
                  !.is_start = Put(@, FALSE), !.is_goal = Put(@, FALSE)]

\* the Node objects the engine still refers to: those of self.nodes and the
\* graphs of start_node and goal_node; the others are gone
Collect(t) ==
    LET keep == NodeSet(t) \cup
                {n \in DOMAIN t.state :
                    \E r \in {t.start_node, t.goal_node} \ {None} : SlotOf(n) = SlotOf(r)}
        Only(F) == [n \in keep |-> F[n]]
    IN  [t EXCEPT !.edges = Only(@), !.pos = Only(@), !.score = Only(@),
                  !.state = Only(@), !.g = Only(@), !.h = Only(@), !.f = Only(@),
                  !.parent = Only(@), !.is_current = Only(@),
                  !.in_final_path = Only(@), !.is_start = Only(@), !.is_goal = Only(@)]

\* the K_n branch of main: BFS.py 361-365 and astar.py 280-284 clear
\* start_node and goal_node between generate_tree and reset_search,
\* ucs.py 338-340 calls generate_tree and reset_search only
OnNewGraph(t, e) ==
    LET t1 == generate_tree(t, e, SlotOf(t.nodes[1]) + 1)
        t2 == IF t.alg = "ucs" THEN t1
              ELSE [t1 EXCEPT !.start_node = None, !.goal_node = None]
    IN  Collect(reset_search(t2))

\* N is pressed at most MaxNewGraphs times
MaxNewGraphs == 1

KeyN ==
    /\ SlotOf(nodes[1]) < MaxNewGraphs
    /\ \E e \in NewGraphs : \E t \in {OnNewGraph(Self, e)} : Becomes(t)
    /\ last_op' = "new"

InitNew ==
    \E e \in NewGraphs :
        \/ Constructed("bfs", Nodes3, e, Layout3, NoScore(Nodes3),
                       Msg("Select Start (L-Click) & Goal (R-Click)", 0, 0, 0))
        \/ Constructed("ucs", Nodes3, e, Layout3, NoScore(Nodes3),
                       Msg("L-Click: Start | R-Click: Goal", 0, 0, 0))
        \/ Constructed("astar", Nodes3, e, Layout3, NoScore(Nodes3),
                       Msg("L-Click: Start | R-Click: Goal", 0, 0, 0))

NextNew == MouseDown \/ KeySpace \/ KeyR \/ KeyN

NewGraphSpec == InitNew /\ [][NextNew]_vars

(***************************************************************************)
(* Reference notions the claims are stated against, computed from the      *)
(* graph alone (never from the engine's bookkeeping).                      *)
(***************************************************************************)
SearchAlgs == {"bfs", "ucs", "astar"}

\* the weight an edge counts for: 1 per edge for BFS, tenths for astar.py
EdgeCost(t, w) ==
    CASE t.alg = "bfs" -> 1
      [] t.alg = "astar" -> w * Tenths
      [] OTHER -> w

\* one round of Bellman-Ford over all edges
RelaxAll(t, d) ==
    [n \in DOMAIN d |->
        LET cands == {d[n]} \cup
                     UNION { { d[u] + EdgeCost(t, t.edges[u][i][2]) :
                                 i \in {j \in DOMAIN t.edges[u] : t.edges[u][j][1] = n} } :
                             u \in {x \in DOMAIN d : d[x] < Inf} }
        IN  CHOOSE c \in cands : \A c2 \in cands : c <= c2]

RECURSIVE Rounds(_, _, _)
Rounds(t, d, k) == IF k = 0 THEN d ELSE Rounds(t, RelaxAll(t, d), k - 1)

\* the least cost of a path from s to every node (Inf: no path)
DistFrom(t, s) ==
    Rounds(t, [n \in NodeSet(t) |-> IF n = s THEN 0 ELSE Inf], Len(t.nodes))

Reachable(t, s, n) == DistFrom(t, s)[n] < Inf

\* the nodes met walking parent pointers from n, n included, as a list; the
\* walk stops at a node without parent or after more steps than there are nodes
RECURSIVE ParentChain(_, _, _)
ParentChain(t, n, fuel) ==
    IF n = None \/ fuel = 0 THEN <<>>
    ELSE <<n>> \o ParentChain(t, t.parent[n], fuel - 1)

Chain(t, n) == ParentChain(t, n, Len(t.nodes) + 1)

\* the weight of the edge u -> v (graphs have no parallel edges); Inf if absent
WeightOf(t, u, v) ==
    IF \E i \in DOMAIN t.edges[u] : t.edges[u][i][1] = v
    THEN EdgeCost(t, t.edges[u][CHOOSE i \in DOMAIN t.edges[u] : t.edges[u][i][1] = v][2])
    ELSE Inf

\* the total cost of the edges parent -> child along a chain (goal first)
RECURSIVE ChainCost(_, _)
ChainCost(t, c) ==
    IF Len(c) < 2 THEN 0
    ELSE WeightOf(t, c[2], c[1]) + ChainCost(t, Tail(c))

\* terminal with the goal popped and its path marked / with the frontier empty
Found(t) ==
    /\ t.completed /\ t.goal_node # None
    /\ t.state[t.goal_node] = "visited" /\ t.is_current[t.goal_node]
    /\ t.in_final_path[t.goal_node]
    /\ t.message[1] \in {"Goal Found! Path reconstructed.", "Goal Found! Total Cost",
                         "Goal Found! Final Cost"}

Exhausted(t) ==
    /\ t.completed /\ t.frontier = <<>>
    /\ t.message[1] \in {"Queue Empty! Goal not found.",
                         "Priority Queue Empty! Goal unreachable.", "No Path Found."}

\* the parent chain from the goal is a path from start of the least cost
GoalChainOptimal(t) ==
    LET c == Chain(t, t.goal_node)
    IN  /\ Len(c) <= Len(t.nodes)
        /\ c[Len(c)] = t.start_node
        /\ ChainCost(t, c) = DistFrom(t, t.start_node)[t.goal_node]

(***************************************************************************)
(* Optimality of the reconstructed path                                    *)
(***************************************************************************)
\* C1: UCS optimality.  Whenever the UCS engine is terminal and the goal can
\* be reached from the start, the run ended in Found and the parent chain
\* from the goal ends at the start and has the least total edge weight of
\* all paths from start to goal.
UCSOptimal ==
    (alg = "ucs" /\ completed /\ Armed(Self)
       /\ Reachable(Self, start_node, goal_node))
    => (Found(Self) /\ GoalChainOptimal(Self))

\* C1 witness: UCS found the goal along two edges although a direct, more
\* expensive edge from start to goal exists.
UCSOptimalWitness ==
    /\ alg = "ucs" /\ Found(Self)
    /\ Len(Chain(Self, goal_node)) = 3
    /\ WeightOf(Self, start_node, goal_node) < Inf
    /\ WeightOf(Self, start_node, goal_node) > DistFrom(Self, start_node)[goal_node]

\* h is non-negative and never larger than the least remaining cost to the goal
Admissible(t) ==
    \A n \in NodeSet(t) :
        /\ t.h[n] >= 0
        /\ Reachable(t, n, t.goal_node) => t.h[n] <= DistFrom(t, n)[t.goal_node]

\* C2: A* optimality.  Whenever the A* engine is terminal, the heuristic is
\* admissible and the goal can be reached from the start, the run ended in
\* Found and the parent chain from the goal ends at the start and has the
\* least total edge weight of all paths from start to goal.
AStarOptimal ==
    (alg = "astar" /\ completed /\ Armed(Self) /\ Admissible(Self)
       /\ Reachable(Self, start_node, goal_node))
    => (Found(Self) /\ GoalChainOptimal(Self))

\* C3: BFS fewest edges.  Whenever the BFS engine is terminal and the goal can
\* be reached from the start, the run ended in Found and the parent chain
\* from the goal ends at the start and has the least number of edges of all
\* paths from start to goal.
BFSFewestEdges ==
    (alg = "bfs" /\ completed /\ Armed(Self)
       /\ Reachable(Self, start_node, goal_node))
    => (found /\ Found(Self) /\ GoalChainOptimal(Self))

\* C3 witness: BFS found the goal over the direct edge although the start has
\* another child that also leads to the goal.
BFSFewestEdgesWitness ==
    /\ alg = "bfs" /\ Found(Self)
    /\ Len(Chain(Self, goal_node)) = 2
    /\ \E m \in NodeSet(Self) \ {start_node, goal_node} :
          /\ WeightOf(Self, start_node, m) < Inf
          /\ WeightOf(Self, m, goal_node) < Inf
          /\ edges[start_node][1][1] = m

(***************************************************************************)
(* Termination and completeness                                            *)
(***************************************************************************)
\* C4: Termination.  In a run of the BFS, UCS or A* engine that keeps being
\* stepped and is not reset, every state with start and goal set is followed
\* by a terminal state (completed = TRUE).
Terminates ==
    (alg \in SearchAlgs /\ Armed(Self)) ~> completed

\* C4 witness: a UCS run on a graph with a zero-weight cycle through the
\* start has become terminal.
TerminatesWitness ==
    /\ alg = "ucs" /\ completed
    /\ \E n \in NodeSet(Self) \ {start_node} :
          WeightOf(Self, start_node, n) = 0 /\ WeightOf(Self, n, start_node) = 0

\* C5: Completeness.  A terminal BFS, UCS or A* run is Found exactly when the
\* goal can be reached from the start along directed edges and Exhausted
\* exactly when it cannot; a run whose start is its goal is Found as soon as
\* one step has been taken.
Complete ==
    alg \in SearchAlgs =>
        /\ completed =>
             /\ Armed(Self)
             /\ Found(Self) <=> Reachable(Self, start_node, goal_node)
             /\ Exhausted(Self) <=> ~Reachable(Self, start_node, goal_node)
        /\ (Armed(Self) /\ start_node = goal_node /\ running) => Found(Self)

\* C5 witness: a run ended Exhausted after expanding a node besides the start.
CompleteWitness ==
    /\ alg \in SearchAlgs /\ Exhausted(Self)
    /\ \E n \in NodeSet(Self) \ {start_node} : state[n] = "visited"

(***************************************************************************)
(* Parent pointers                                                         *)
(***************************************************************************)
\* C6: Parent chains are acyclic and rooted at start.  In every state of the
\* BFS, UCS and A* engines the walk along parent pointers from any node meets
\* no node twice, the start node has no parent, and every node that has a
\* parent reaches the start node (so the walk of reconstruct_path from the
\* goal ends at start).
ParentChainsAcyclic ==
    alg \in SearchAlgs =>
        /\ start_node # None => parent[start_node] = None
        /\ \A n \in NodeSet(Self) :
              LET c == Chain(Self, n)
              IN  /\ Len(c) <= Len(nodes)
                  /\ Cardinality(Elems(c)) = Len(c)
                  /\ parent[n] # None =>
                        (start_node # None /\ c[Len(c)] = start_node)

\* C6 witness: UCS has expanded the start and a child of it that has a
\* zero-weight edge back to the start (the two form a zero-weight cycle).
ParentChainsAcyclicWitness ==
    /\ alg = "ucs" /\ Armed(Self)
    /\ \E n \in NodeSet(Self) \ {start_node} :
          /\ WeightOf(Self, start_node, n) = 0 /\ WeightOf(Self, n, start_node) = 0
          /\ state[start_node] = "visited" /\ state[n] = "visited"
          /\ parent[n] = start_node

(***************************************************************************)
(* Steps that must change nothing                                          *)
(***************************************************************************)
\* the attributes of the nodes and the two roles are the same in t and u
SameNodes(t, u) ==
    /\ t.state = u.state /\ t.g = u.g /\ t.h = u.h /\ t.f = u.f
    /\ t.parent = u.parent /\ t.is_current = u.is_current
    /\ t.in_final_path = u.in_final_path
    /\ t.is_start = u.is_start /\ t.is_goal = u.is_goal
    /\ t.start_node = u.start_node /\ t.goal_node = u.goal_node

\* frontier seeded with the start alone, nothing expanded
Ready(t) ==
    /\ Armed(t) /\ ~t.running /\ ~t.completed
    /\ t.frontier = <<t.start_node>>

TerminalStepNoOp ==
    completed => OnSpace(Self) = Self

\* C8 witness: SPACE was pressed on a terminal engine whose frontier still
\* holds nodes.
TerminalStepNoOpWitness ==
    /\ last_op = "step_done" /\ completed /\ frontier # <<>>

(***************************************************************************)
(* reset_search                                                            *)
(***************************************************************************)
\* C9: reset is idempotent.  From every state of the BFS, UCS and A* engines,
\* reset_search() called twice in a row leaves the engine (frontier, flags,
\* message and every node attribute) as one call leaves it.
ResetIdempotent ==
    alg \in SearchAlgs =>
        reset_search(reset_search(Self)) = reset_search(Self)

\* C9 witness: R was pressed on an armed engine; the state is the one a
\* further reset yields again.
ResetIdempotentWitness ==
    /\ alg \in SearchAlgs /\ last_op = "reset" /\ Ready(Self)
    /\ reset_search(Self) = Self

\* C10: reset clears search state and keeps role markers.  After
\* reset_search() from any state of the BFS, UCS or A* engine every node
\* other than the seeded start is unvisited, without parent, of infinite cost,
\* not current and not on the final path, while start_node, goal_node and
\* every is_start / is_goal flag are what they were before the call.
ResetClearsKeepsRoles ==
    alg \in SearchAlgs =>
        LET t == reset_search(Self)
        IN  /\ \A n \in NodeSet(Self) :
                  (Armed(Self) /\ n = start_node) \/
                  (/\ t.state[n] = "unvisited" /\ t.parent[n] = None
                   /\ t.g[n] = Inf /\ t.f[n] = Inf
                   /\ ~t.is_current[n] /\ ~t.in_final_path[n])
            /\ t.start_node = start_node /\ t.goal_node = goal_node
            /\ t.is_start = is_start /\ t.is_goal = is_goal

\* C10 witness: R was pressed and the engine still carries distinct start and
\* goal nodes with their flags.
ResetClearsKeepsRolesWitness ==
    /\ alg \in SearchAlgs /\ last_op = "reset" /\ Armed(Self)
    /\ start_node # goal_node
    /\ is_start[start_node] /\ is_goal[goal_node]
    /\ \A n \in NodeSet(Self) \ {start_node} : state[n] = "unvisited"

(***************************************************************************)
(* The Ready state, the current node, the frontier                         *)
(***************************************************************************)
\* C11: Ready state after reset.  With start and goal set, reset_search()
\* leaves the frontier holding exactly the start node once, the start with
\* status frontier and cost 0 (UCS: g_cost = 0; A*: g = 0 and f = h(start),
\* h the heuristic towards the goal), running and completed false and no node
\* visited; with start or goal unset the frontier is empty and every node is
\* unvisited.
ReadyAfterReset ==
    alg \in SearchAlgs =>
        LET t == reset_search(Self)
        IN  /\ ~t.running /\ ~t.completed
            /\ \A n \in NodeSet(t) : t.state[n] # "visited"
            /\ IF Armed(Self)
               THEN /\ t.frontier = <<start_node>>
                    /\ t.state[start_node] = "frontier"
                    /\ \A n \in NodeSet(t) \ {start_node} : t.state[n] = "unvisited"
                    /\ alg \in {"ucs", "astar"} => t.g[start_node] = 0
                    /\ alg = "astar" =>
                          /\ t.h[start_node] = calculate_heuristic(Self, start_node, goal_node)
                          /\ t.f[start_node] = t.h[start_node]
               ELSE /\ t.frontier = <<>>
                    /\ \A n \in NodeSet(t) : t.state[n] = "unvisited"

\* C11 witness: R was pressed on an armed A* engine whose start lies away from
\* the goal; the frontier holds the start alone with f = h > 0.
ReadyAfterResetWitness ==
    /\ alg = "astar" /\ last_op = "reset" /\ Armed(Self)
    /\ frontier = <<start_node>> /\ g[start_node] = 0
    /\ h[start_node] > 0 /\ f[start_node] = h[start_node]

\* the nodes a step takes out of the frontier: frontier before, visited after
PoppedBy(t, u) ==
    {n \in NodeSet(t) : t.state[n] = "frontier" /\ u.state[n] = "visited"}

\* the next SPACE pops a node
PopsNode(t) ==
    t.alg \in SearchAlgs /\ Armed(t) /\ ~t.completed /\ t.frontier # <<>>

\* C12: At most one current node.  In every state of the BFS, UCS and A*
\* engines at most one node has is_current = TRUE, and after a step that pops
\* a node the nodes with is_current = TRUE are exactly the node popped.
OneCurrent ==
    alg \in SearchAlgs =>
        /\ Cardinality({n \in NodeSet(Self) : is_current[n]}) <= 1
        /\ PopsNode(Self) =>
              LET t == OnSpace(Self)
              IN  /\ Cardinality(PoppedBy(Self, t)) = 1
                  /\ {n \in NodeSet(t) : t.is_current[n]} = PoppedBy(Self, t)
                  /\ ~InList(CHOOSE n \in PoppedBy(Self, t) : TRUE, t.frontier)

\* C12 witness: a step has popped a node other than the start, which was
\* current before it.
OneCurrentWitness ==
    /\ alg \in SearchAlgs /\ last_op = "step" /\ Armed(Self)
    /\ \E n \in NodeSet(Self) \ {start_node} :
          /\ is_current[n] /\ state[n] = "visited"
          /\ state[start_node] = "visited" /\ ~is_current[start_node]

\* the number of places of the list q that hold x
Occurrences(x, q) == Cardinality({i \in DOMAIN q : q[i] = x})

\* C13: Frontier bookkeeping.  In every state of the BFS, UCS and A* engines a
\* node has status frontier if and only if it occurs in the frontier list
\* (queue, priority_queue, open_list), it occurs there exactly once, and in
\* UCS and A* its cost is finite.
FrontierBookkeeping ==
    alg \in SearchAlgs =>
        \A n \in NodeSet(Self) :
            /\ state[n] = "frontier" <=> InList(n, frontier)
            /\ Occurrences(n, frontier) <= 1
            /\ (state[n] = "frontier" /\ alg \in {"ucs", "astar"}) => g[n] < Inf

\* C13 witness: a UCS step has lowered the cost of a node waiting in the
\* frontier below the weight of its edge from the start (a relaxation), next
\* to another frontier node.
FrontierBookkeepingWitness ==
    /\ alg = "ucs" /\ last_op = "step" /\ Armed(Self)
    /\ \E n \in NodeSet(Self) :
          /\ state[n] = "frontier" /\ InList(n, frontier)
          /\ g[n] < WeightOf(Self, start_node, n) /\ WeightOf(Self, start_node, n) < Inf

(***************************************************************************)
(* The order of expansion and relaxation in ucs.py and astar.py            *)
(***************************************************************************)
\* the priority the frontier is sorted by: g_cost in ucs.py, f in astar.py
Priority(t) == IF t.alg = "astar" THEN t.f ELSE t.g

\* the frontier nodes of the least priority
MinPriorityNodes(t) ==
    {n \in Elems(t.frontier) :
        \A m \in Elems(t.frontier) : Priority(t)[n] <= Priority(t)[m]}

\* C14: Deterministic tie-break by id.  In a UCS or A* step, when several
\* frontier nodes share the minimum priority (cost for UCS, cost + heuristic
\* for A*), the node popped and expanded is the one with the lowest id among
\* them, whatever the order of insertion.
TieBreakById ==
    (alg \in {"ucs", "astar"} /\ PopsNode(Self)) =>
        LET ties == MinPriorityNodes(Self)
            lowest == CHOOSE n \in ties : \A m \in ties : n <= m
        IN  PoppedBy(Self, OnSpace(Self)) = {lowest}

\* C15: Re-opening on relaxation.  In a UCS or A* step that expands the node
\* popped, every neighbor that is visited and whose cost is strictly above
\* the tentative cost (cost of the popped node plus the edge weight) gets the
\* tentative cost and the popped node as parent, status frontier, and a place
\* in the open structure again.
ReopensOnRelaxation ==
    (alg \in {"ucs", "astar"} /\ PopsNode(Self)) =>
        LET t == OnSpace(Self)
            current == CHOOSE n \in PoppedBy(Self, t) : TRUE
        IN  current # goal_node =>
              \A i \in DOMAIN edges[current] :
                 LET child == edges[current][i][1]
                     tentative == g[current] + EdgeCost(Self, edges[current][i][2])
                 IN  (state[child] = "visited" /\ tentative < g[child]) =>
                        /\ t.g[child] = tentative /\ t.parent[child] = current
                        /\ t.state[child] = "frontier"
                        /\ InList(child, t.frontier)

(***************************************************************************)
(* BFS.py never relaxes                                                    *)
(***************************************************************************)
\* the transition is a SPACE key press (a step of the run, not a reset)
IsStep == last_op' \in {"step", "step_done", "step_idle"}

\* C16: BFS enqueues each node at most once per run.  In every step of BFS
\* between two resets a node is appended to the queue only while it is
\* unvisited and without parent (its first discovery), its parent is assigned
\* only then, a node of the queue stays there or becomes visited with its
\* parent unchanged, and a visited node stays visited and out of the queue; so
\* no node is appended or given a parent twice, on graphs with cycles and
\* several incoming edges per node too.
BFSEnqueuesOnce ==
    [][(alg = "bfs" /\ IsStep) =>
          \A n \in NodeSet(Self) :
             /\ Occurrences(n, frontier') <= 1
             /\ Occurrences(n, frontier') > Occurrences(n, frontier) =>
                   (state[n] = "unvisited" /\ parent[n] = None /\ state'[n] = "frontier")
             /\ parent'[n] # parent[n] =>
                   (state[n] = "unvisited" /\ parent[n] = None /\ state'[n] = "frontier")
             /\ state[n] = "frontier" =>
                   (state'[n] \in {"frontier", "visited"} /\ parent'[n] = parent[n])
             /\ state[n] = "visited" =>
                   (state'[n] = "visited" /\ ~InList(n, frontier'))
             /\ state'[n] = "unvisited" => (parent'[n] = None /\ ~InList(n, frontier'))
      ]_vars

\* C16 witness: BFS has expanded a node other than the start that has an edge
\* back to the visited start (a cycle) and an edge to a third node that the
\* start has an edge to as well (two incoming edges).
BFSEnqueuesOnceWitness ==
    /\ alg = "bfs" /\ last_op = "step" /\ Armed(Self)
    /\ \E n, m \in NodeSet(Self) \ {start_node} :
          /\ n # m /\ is_current[n] /\ state[n] = "visited"
          /\ state[start_node] = "visited"
          /\ WeightOf(Self, n, start_node) < Inf
          /\ WeightOf(Self, n, m) < Inf /\ WeightOf(Self, start_node, m) < Inf
          /\ parent[m] = start_node

(***************************************************************************)
(* The final path and the role markers                                     *)
(***************************************************************************)
\* the nodes marked as lying on the final path
Marked(t) == {n \in NodeSet(t) : t.in_final_path[n]}

\* the goal has been popped
GoalPopped(t) == Armed(t) /\ t.state[t.goal_node] = "visited"

\* C17: Found marks exactly the parent chain.  In the BFS, UCS and A* engines,
\* once the goal has been popped the nodes with in_final_path = TRUE are
\* exactly the nodes of the parent chain from the goal to the start, both
\* included, and the goal is visited; in every other state, Exhausted
\* included, no node has in_final_path = TRUE.
FoundMarksChain ==
    alg \in SearchAlgs =>
        /\ IF GoalPopped(Self)
           THEN /\ Found(Self)
                /\ Marked(Self) = Elems(Chain(Self, goal_node))
                /\ goal_node \in Marked(Self) /\ start_node \in Marked(Self)
           ELSE Marked(Self) = {} /\ ~Found(Self)
        /\ Exhausted(Self) => (Marked(Self) = {} /\ ~Found(Self))

\* C17 witness: the goal was popped at the end of a chain of three nodes while
\* a fourth node, off the chain, is visited.
FoundMarksChainWitness ==
    /\ alg \in SearchAlgs /\ GoalPopped(Self) /\ completed
    /\ Len(Chain(Self, goal_node)) = 3
    /\ \E n \in NodeSet(Self) : state[n] = "visited" /\ ~in_final_path[n]

\* C18: Assigning start or goal re-arms the search.  In the BFS, UCS and A*
\* engines handle_click, in every state in which main passes the click on,
\* with the left (right) button makes the node hit the
\* start (goal) and clears the flag of the node that had the role, so that
\* is_start (is_goal) marks the start (goal) node and no other, and it leaves
\* the engine as a full reset_search() does: Ready when both roles are set,
\* otherwise with an empty frontier, every node unvisited and the flags false.
ClickRearms ==
    alg \in SearchAlgs =>
        /\ \A n \in NodeSet(Self) :
              (is_start[n] <=> n = start_node) /\ (is_goal[n] <=> n = goal_node)
        /\ \A node \in NodeSet(Self), button \in {1, 3} :
              ClickAllowed(Self) =>
              LET t == OnClick(Self, node, button)
              IN  /\ t.start_node = IF button = 1 THEN node ELSE start_node
                  /\ t.goal_node = IF button = 3 THEN node ELSE goal_node
                  /\ \A n \in NodeSet(t) :
                        /\ t.is_start[n] <=> n = t.start_node
                        /\ t.is_goal[n] <=> n = t.goal_node
                  /\ Cardinality({n \in NodeSet(t) : t.is_start[n]}) <= 1
                  /\ Cardinality({n \in NodeSet(t) : t.is_goal[n]}) <= 1
                  /\ t = reset_search(t)
                  /\ IF Armed(t) THEN Ready(t)
                     ELSE /\ t.frontier = <<>> /\ ~t.running /\ ~t.completed
                          /\ \A n \in NodeSet(t) : t.state[n] = "unvisited"

\* C18 witness: a click has left a BFS engine Ready with distinct start and
\* goal, each flagged on one node.
ClickRearmsWitness ==
    /\ alg = "bfs" /\ last_op = "click" /\ Ready(Self)
    /\ start_node # goal_node
    /\ {n \in NodeSet(Self) : is_start[n]} = {start_node}
    /\ {n \in NodeSet(Self) : is_goal[n]} = {goal_node}

(***************************************************************************)
(* Hill climbing                                                           *)
(***************************************************************************)
\* a run of the climber is under way
Climbing(t) ==
    t.alg = "hc" /\ t.running /\ ~t.completed /\ t.current_node # None

\* the current nodes of the run continued from t by at most fuel steps, in
\* order, t's own current node first
RECURSIVE ClimbPath(_, _)
ClimbPath(t, fuel) ==
    IF fuel = 0 \/ HC_step_returns(t) THEN <<t.current_node>>
    ELSE LET u == HC_step(t)
         IN  IF u.current_node # t.current_node
             THEN <<t.current_node>> \o ClimbPath(u, fuel - 1)
             ELSE ClimbPath(u, fuel - 1)

\* the engine after at most fuel steps of the run continued from t
RECURSIVE ClimbEnd(_, _)
ClimbEnd(t, fuel) ==
    IF fuel = 0 \/ HC_step_returns(t) THEN t ELSE ClimbEnd(HC_step(t), fuel - 1)

\* three stages per node
ClimbFuel(t) == 3 * Len(t.nodes)

\* C19: Hill climbing is strictly monotone and bounded.  Each Move stage takes
\* the climber to a node of strictly greater score than the one it leaves;
\* the current nodes of a run have strictly increasing scores, so none is
\* current twice, and the run reaches Peak (completed = TRUE) after at most as
\* many moves as there are nodes.
HCMonotone ==
    Climbing(Self) =>
        /\ (step_stage = 3 /\ best_neighbor # None) =>
              /\ score[best_neighbor] > score[current_node]
              /\ OnSpace(Self).current_node = best_neighbor
        /\ LET path == ClimbPath(Self, ClimbFuel(Self))
           IN  /\ \A i, j \in DOMAIN path : i < j => score[path[i]] < score[path[j]]
               /\ Cardinality(Elems(path)) = Len(path)
               /\ Len(path) - 1 <= Len(nodes)
               /\ ClimbEnd(Self, ClimbFuel(Self)).completed

\* C19 witness: the climber has just moved (stage 3 led back to stage 1) and
\* will move once more.
HCMonotoneWitness ==
    /\ Climbing(Self) /\ last_op = "step" /\ step_stage = 1
    /\ Len(ClimbPath(Self, ClimbFuel(Self))) >= 2

\* C20: Hill-climbing Evaluate selection.  The Evaluate stage sets
\* best_neighbor to the neighbor of the current node of the greatest score
\* among those of strictly greater score than the current node, the first in
\* adjacency order on a tie, and to none exactly when no neighbor has a
\* strictly greater score; neighbors of strictly greater score are marked
\* better, all others (equal scores too) worse.
HCEvaluateSelects ==
    (Climbing(Self) /\ step_stage = 2) =>
        LET cur == current_node
            nb == edges[cur]
            t == OnSpace(Self)
            better == {i \in DOMAIN nb : score[nb[i][1]] > score[cur]}
            top == {i \in better : \A j \in better : score[nb[j][1]] <= score[nb[i][1]]}
        IN  /\ t.step_stage = 3 /\ t.current_node = cur
            /\ t.best_neighbor = None <=> better = {}
            /\ better # {} =>
                  t.best_neighbor = nb[CHOOSE i \in top : \A j \in top : i <= j][1]
            /\ \A i \in DOMAIN nb :
                  t.state[nb[i][1]] = IF i \in better THEN "better" ELSE "worse"

\* C20 witness: Evaluate has chosen the first of two neighbors of the same
\* score above the current one, the first in adjacency order having the
\* higher id.
HCEvaluateSelectsWitness ==
    /\ Climbing(Self) /\ last_op = "step" /\ step_stage = 3
    /\ Len(edges[current_node]) = 2
    /\ LET a == edges[current_node][1][1]
           b == edges[current_node][2][1]
       IN  /\ score[a] = score[b] /\ score[a] > score[current_node]
           /\ a > b /\ best_neighbor = a

\* the climber stands on a peak
AtPeak(t) ==
    /\ t.alg = "hc" /\ t.completed /\ t.current_node # None
    /\ t.state[t.current_node] = "peak"

\* C21: Peak always reports global versus local optimum.  Whenever the hill
\* climber has gone to Peak, with or without neighbors around the current
\* node, the message says 'global maximum' if the score of the current node
\* is the greatest score of the graph and 'local maximum' otherwise.
PeakReportsOptimum ==
    AtPeak(Self) =>
        message[1] = IF \A n \in NodeSet(Self) : score[n] <= score[current_node]
                     THEN "Global Maximum Reached! (Highest Point)"
                     ELSE "Stuck at Local Max. Global Max is"

\* C22: Peak means local maximum.  Whenever the hill climber is in Peak
\* (completed = TRUE, the current node in state peak) no neighbor of the
\* current node has a score strictly greater than that of the current node.
PeakIsLocalMax ==
    AtPeak(Self) =>
        \A i \in DOMAIN edges[current_node] :
            score[edges[current_node][i][1]] <= score[current_node]

\* C22 witness: a Peak below the greatest score of the graph, next to a
\* neighbor of the same score (a plateau).
PeakIsLocalMaxWitness ==
    /\ AtPeak(Self) /\ last_op = "step"
    /\ \E n \in NodeSet(Self) : score[n] > score[current_node]
    /\ \E i \in DOMAIN edges[current_node] :
          score[edges[current_node][i][1]] = score[current_node]

(***************************************************************************)
(* Scenarios                                                               *)
(***************************************************************************)
\* the engine after stepping t until it is completed, at most fuel times
RECURSIVE RunToEnd(_, _)
RunToEnd(t, fuel) ==
    IF fuel = 0 \/ t.completed THEN t ELSE RunToEnd(step(t), fuel - 1)

\* a step for every node and one more
RunFuel(t) == Len(t.nodes) + 1

\* C23: Scenario, two paths of differing cost.  On the graph 0->1 weight 10,
\* 0->2 weight 1, 2->1 weight 1 with start 0 and goal 1, UCS stepped to
\* termination ends Found with goal cost 2 and parent chain 1 <- 2 <- 0 (path
\* [0,2,1]), not the path [0,1] of cost 10.
TwoPathsScenario ==
    (alg = "ucs" /\ edges = TwoPaths /\ start_node = 0 /\ goal_node = 1) =>
        LET e == RunToEnd(Self, RunFuel(Self))
        IN  /\ e.completed /\ Found(e)
            /\ e.g[1] = 2
            /\ Chain(e, 1) = <<1, 2, 0>>
            /\ Marked(e) = {0, 1, 2}
            /\ e.message = Msg("Goal Found! Total Cost", 2, 0, 0)

\* C23 witness: the run on the two-path graph from 0 to 1 has ended.
TwoPathsScenarioWitness ==
    /\ alg = "ucs" /\ edges = TwoPaths /\ start_node = 0 /\ goal_node = 1
    /\ completed /\ last_op = "step" /\ g[1] = 2 /\ parent[1] = 2

\* C24: Scenario, linear chain.  On the chain 0->1->2->3 with weights 1, 1, 1,
\* start 0 and goal 3, UCS stepped to termination ends Found with goal cost 3
\* and path [0,1,2,3], and BFS stepped to termination ends Found with the
\* same path.
LinearChainScenario ==
    (alg \in {"ucs", "bfs"} /\ edges = LinearChain /\ start_node = 0 /\ goal_node = 3) =>
        LET e == RunToEnd(Self, RunFuel(Self))
        IN  /\ e.completed /\ Found(e)
            /\ Chain(e, 3) = <<3, 2, 1, 0>>
            /\ Marked(e) = {0, 1, 2, 3}
            /\ alg = "ucs" =>
                  (e.g[3] = 3 /\ e.message = Msg("Goal Found! Total Cost", 3, 0, 0))

\* C24 witness: the BFS run on the chain from 0 to 3 has ended with the four
\* nodes marked.
LinearChainScenarioWitness ==
    /\ alg = "bfs" /\ edges = LinearChain /\ start_node = 0 /\ goal_node = 3
    /\ completed /\ last_op = "step" /\ Marked(Self) = {0, 1, 2, 3}

\* C25: Scenario, hill climbing on a line.  On the line 0 - 1 - 2 with scores
\* 5, 10, 3 a climb started at node 0 moves to node 1 and, after surveying and
\* evaluating the neighbors of node 1, stops at Peak on node 1 with the report
\* of the global maximum; node 2 is never current.
LineClimbScenario ==
    (alg = "hc" /\ edges = ScoreLine /\ score = LineScores
       /\ last_op = "click" /\ current_node = 0) =>
        LET e == ClimbEnd(Self, 6)
        IN  /\ running /\ ~completed /\ step_stage = 1
            /\ ClimbPath(Self, 6) = <<0, 1>>
            /\ ClimbEnd(Self, 3).current_node = 1 /\ ClimbEnd(Self, 3).step_stage = 1
            /\ ~ClimbEnd(Self, 5).completed /\ ClimbEnd(Self, 5).step_stage = 3
            /\ AtPeak(e) /\ e.current_node = 1
            /\ e.message = Msg("Global Maximum Reached! (Highest Point)", 0, 0, 0)

\* C25 witness: on the line the climber, having moved, stands at Peak on node
\* 1 with node 0 and node 2 marked worse.
LineClimbScenarioWitness ==
    /\ alg = "hc" /\ edges = ScoreLine /\ score = LineScores
    /\ AtPeak(Self) /\ current_node = 1 /\ last_op = "step"
    /\ state[0] = "worse" /\ state[2] = "worse"

(***************************************************************************)
(* Costs and parents                                                       *)
(***************************************************************************)
\* C26: Reported cost matches the reconstructed path.  In the UCS and A*
\* engines every node with a parent p has cost(node) = cost(p) +
\* weight(p, node) in every reachable state, so that in Found the cost of the
\* goal equals the sum of the edge weights along its parent chain.
CostMatchesParentChain ==
    alg \in {"ucs", "astar"} =>
        /\ \A n \in NodeSet(Self) :
              parent[n] # None => g[n] = g[parent[n]] + WeightOf(Self, parent[n], n)
        /\ Found(Self) => g[goal_node] = ChainCost(Self, Chain(Self, goal_node))

(***************************************************************************)
(* A new graph                                                             *)
(***************************************************************************)
\* C27: A new graph leaves no stale search state.  In the BFS, UCS and A*
\* visualizers the engine after the new-graph action is Idle with start_node
\* and goal_node unset and an empty frontier, and the frontier only ever
\* holds nodes of the graph in self.nodes, so that no step pops a node of a
\* replaced graph.
NewGraphLeavesNothing ==
    alg \in SearchAlgs =>
        /\ last_op = "new" =>
              /\ Idle(Self) /\ ~running /\ ~completed
              /\ start_node = None /\ goal_node = None
              /\ frontier = <<>>
        /\ Elems(frontier) \subseteq NodeSet(Self)

(***************************************************************************)
(* Settled nodes, improving costs, ordered frontiers                       *)
(***************************************************************************)
\* the nodes with status visited
Settled(st) == {n \in DOMAIN st : st[n] = "visited"}

\* C28: UCS never actually re-opens a settled node.  With non-negative
\* weights every step of the UCS engine leaves each visited node visited with
\* its cost and parent as they were, settles at most one node, takes that
\* node out of the priority queue, and the node it settles costs no less than
\* any node settled before: every node is popped at most once and the nodes
\* popped are as many as the visited ones, at most the number of nodes.
UCSNeverReopens ==
    [][(alg = "ucs" /\ IsStep) =>
          /\ \A n \in Settled(state) :
                state'[n] = "visited" /\ g'[n] = g[n] /\ parent'[n] = parent[n]
          /\ Cardinality(Settled(state') \ Settled(state)) <= 1
          /\ \A u \in Settled(state') \ Settled(state) :
                /\ InList(u, frontier) /\ ~InList(u, frontier')
                /\ g'[u] = g[u]
                /\ \A v \in Settled(state) : g[v] <= g[u]
          /\ Cardinality(Settled(state')) <= Len(nodes)]_vars

\* C28 witness: the UCS step just taken met an edge from the node popped to a
\* node settled earlier whose cost equals the tentative cost.
UCSNeverReopensWitness ==
    /\ alg = "ucs" /\ last_op = "step" /\ ~completed
    /\ \E c \in NodeSet(Self) :
          /\ is_current[c]
          /\ \E i \in DOMAIN edges[c] :
                LET v == edges[c][i][1]
                IN  v # c /\ state[v] = "visited" /\ g[c] + edges[c][i][2] = g[v]

\* C29: Costs only improve.  In every step of the UCS and A* engines no
\* node's cost increases, and a node whose cost or parent changes gets the
\* node popped as parent and the tentative cost, cost of the node popped plus
\* the weight of the edge, which is strictly lower than the cost the node had
\* before the step; a node whose tentative cost is not lower keeps cost and
\* parent.
CostsOnlyImprove ==
    [][(alg \in {"ucs", "astar"} /\ IsStep) =>
          \A n \in NodeSet(Self) :
              /\ g'[n] <= g[n]
              /\ (g'[n] # g[n] \/ parent'[n] # parent[n]) =>
                    \E u \in NodeSet(Self) :
                        /\ state[u] = "frontier" /\ is_current'[u]
                        /\ parent'[n] = u
                        /\ g'[n] = g[u] + WeightOf(Self, u, n)
                        /\ g'[n] < g[n]
              /\ \A u \in NodeSet(Self) :
                    (is_current'[u] /\ g[u] + WeightOf(Self, u, n) >= g[n]) =>
                        (g'[n] = g[n] /\ parent'[n] = parent[n])]_vars

\* C29 witness: the A* step just taken met an edge from the node popped to a
\* node that an earlier step had reached at exactly the tentative cost, and
\* lowered the cost of another, visited, node.
CostsOnlyImproveWitness ==
    /\ alg = "astar" /\ last_op = "step" /\ ~completed
    /\ \E c \in NodeSet(Self) :
          /\ is_current[c]
          /\ \E n \in NodeSet(Self) \ {c} :
                /\ g[c] + WeightOf(Self, c, n) = g[n]
                /\ parent[n] \notin {c, None}
          /\ \E v \in NodeSet(Self) \ {c} : state[v] = "visited" /\ parent[v] = c

\* the list q is in non-decreasing order of key
Ordered(q, key) == \A i, j \in DOMAIN q : i < j => key[q[i]] <= key[q[j]]

\* the children of c in the order of its edge list
ChildrenOf(t, c) == [i \in DOMAIN t.edges[c] |-> t.edges[c][i][1]]

\* the children of the head of the BFS queue that were neither met nor queued
NewlyDiscovered(t) ==
    LET New(x) == t.state[x] = "unvisited" /\ ~InList(x, t.frontier)
    IN  SelectSeq(ChildrenOf(t, Head(t.frontier)), New)

\* the priority list is in the order of its key
FrontierSorted ==
    /\ alg = "ucs" => Ordered(frontier, g)
    /\ alg = "astar" => Ordered(frontier, f)

\* C30: The frontier snapshot is ordered.  After reset_search and after
\* every step the UCS priority_queue is in non-decreasing order of cost and
\* the A* open_list in non-decreasing order of f = g + h; a BFS step leaves
\* the queue as the rest of the old queue followed by the nodes it discovered,
\* in the order of discovery.
FrontierOrdered ==
    /\ []FrontierSorted
    /\ [][(alg = "bfs" /\ IsStep) =>
             frontier' = IF ~PopsNode(Self) THEN frontier
                         ELSE IF Head(frontier) = goal_node THEN Tail(frontier)
                         ELSE Tail(frontier) \o NewlyDiscovered(Self)]_vars

\* C30 witness: a UCS step has left two nodes in the priority queue in the
\* order of their costs, against the order in which they were appended.
FrontierOrderedWitness ==
    /\ alg = "ucs" /\ last_op = "step" /\ Len(frontier) >= 2
    /\ g[frontier[1]] < g[frontier[2]]
    /\ parent[frontier[1]] = parent[frontier[2]]
    /\ \E i, j \in DOMAIN edges[parent[frontier[1]]] :
          /\ i > j
          /\ edges[parent[frontier[1]]][i][1] = frontier[1]
          /\ edges[parent[frontier[1]]][j][1] = frontier[2]

(***************************************************************************)
(* The report of a step                                                    *)
(***************************************************************************)
\* the count a step that expanded a node reports: "Added {added_count}
\* neighbors" (BFS.py 226), "Updated {updates} neighbors" (ucs.py 229,
\* astar.py 214)
ReportedCount(a, msg) == IF a = "bfs" THEN msg[3] ELSE msg[4]

\* C31: The step report counts every updated neighbor.  In a BFS, UCS or A*
\* step that expands a node other than the goal the number reported equals
\* the number of nodes whose cost or parent the step changed (BFS: whose
\* status became frontier).
ReportCountsUpdates ==
    [][(alg \in SearchAlgs /\ PopsNode(Self) /\ last_op' = "step" /\ ~completed') =>
          ReportedCount(alg, message') =
              Cardinality(IF alg = "bfs"
                          THEN {n \in NodeSet(Self) :
                                  state[n] # "frontier" /\ state'[n] = "frontier"}
                          ELSE {n \in NodeSet(Self) :
                                  g'[n] # g[n] \/ parent'[n] # parent[n]})]_vars

(***************************************************************************)
(* Frame conditions                                                        *)
(***************************************************************************)
\* astar.py: h is the heuristic against the goal once start and goal are set
\* and 0 before, the goal's h is 0, and f = g + h wherever g is finite
HeuristicOfGoal ==
    alg = "astar" =>
        /\ \A n \in NodeSet(Self) :
              /\ h[n] = IF Armed(Self) THEN calculate_heuristic(Self, n, goal_node) ELSE 0
              /\ g[n] < Inf => f[n] = g[n] + h[n]
        /\ goal_node # None => h[goal_node] = 0

\* C32: The heuristic is fixed during a run.  In the A* engine step never
\* changes a node's h; h changes only in reset_search (which handle_click
\* calls), which gives every node its heuristic against the current goal, so
\* that h(goal) = 0; and in every reachable state each node with finite g has
\* f = g + h.
HeuristicFixed ==
    /\ []HeuristicOfGoal
    /\ [][alg = "astar" =>
             /\ IsStep => h' = h
             /\ h' # h => last_op' \in {"reset", "click"}]_vars

\* C32 witness: an A* step has lowered the cost of a node with a positive
\* heuristic, start and goal apart.
HeuristicFixedWitness ==
    /\ alg = "astar" /\ last_op = "step" /\ ~completed
    /\ h[start_node] > 0
    /\ \E n \in NodeSet(Self) \ {start_node} :
          /\ parent[n] # None /\ is_current[parent[n]]
          /\ h[n] > 0 /\ g[n] > 0 /\ g[n] < Inf /\ f[n] = g[n] + h[n]

\* the engines t and u have the same graph and the same roles
SameGraphAndRoles(t, u) ==
    /\ u.nodes = t.nodes /\ u.edges = t.edges /\ u.score = t.score
    /\ u.start_node = t.start_node /\ u.goal_node = t.goal_node
    /\ u.is_start = t.is_start /\ u.is_goal = t.is_goal

\* C33: step and reset leave topology and roles unchanged.  In every
\* reachable state of the four engines neither step nor reset_search (hill
\* climbing: the K_r branch) changes the list of nodes, an adjacency list or
\* weight, a score, start_node, goal_node, is_start or is_goal.
StepAndResetKeepGraph ==
    /\ SameGraphAndRoles(Self, step(Self))
    /\ SameGraphAndRoles(Self, reset_search(Self))

\* C33 witness: a search has popped its start node and gone on, the flags of
\* start and goal standing.
StepAndResetKeepGraphWitness ==
    /\ alg \in SearchAlgs /\ last_op = "step" /\ Armed(Self)
    /\ start_node # goal_node
    /\ is_start[start_node] /\ is_goal[goal_node]
    /\ state[start_node] = "visited" /\ ~is_current[start_node]

(***************************************************************************)
(* Clicks during a run                                                     *)
(***************************************************************************)
\* a run has consumed its first step (hill climbing: a start has been chosen)
\* or has ended
RunInProgress(t) == t.running \/ t.completed

\* every click leaves an engine with a run in progress as it is
ClickIgnoredInRun ==
    RunInProgress(Self) =>
        \A node \in NodeSet(Self), button \in Buttons : OnClick(Self, node, button) = Self

\* C34: A run in progress can only be aborted by reset.  In the four
\* visualizers, once a run has consumed its first step (hill climbing: once a
\* start is chosen), and also once it is terminal, a click changes nothing
\* and the run stays in progress until the key R is pressed.
OnlyResetAborts ==
    /\ []ClickIgnoredInRun
    /\ [][RunInProgress(Self) =>
             /\ last_op' # "click"
             /\ ~(running' \/ completed') => last_op' = "reset"]_vars

\* C34 witness: an A* run has ended, completed and still running.
OnlyResetAbortsWitness ==
    /\ alg = "astar" /\ last_op = "step" /\ completed /\ running
    /\ ClickIgnoredInRun

(***************************************************************************)
(* Hill climbing: stages and the climber                                   *)
(***************************************************************************)
\* the neighbors of n
NeighborsOf(t, n) == {t.edges[n][i][1] : i \in DOMAIN t.edges[n]}

\* in the Move stage best_neighbor is what the Evaluate stage before it found
\* on the current node: none, or a neighbor higher than the current node
BestIsOfCurrent ==
    (alg = "hc" /\ running /\ ~completed /\ step_stage = 3) =>
        \/ best_neighbor = None
        \/ /\ best_neighbor \in NeighborsOf(Self, current_node)
           /\ score[best_neighbor] > score[current_node]

\* C35: Hill-climbing stage order.  Each step of a climb performs one stage:
\* Survey (1) goes on to Evaluate (2) or, without neighbors, to Peak;
\* Evaluate goes on to Move (3), computing best_neighbor on the current
\* node; Move goes on to Survey on best_neighbor or, without one, to Peak.
\* The current node changes only in Move, and Peak is entered only from Move
\* with no best neighbor or from Survey with no neighbors.
HCStageOrder ==
    /\ []BestIsOfCurrent
    /\ [][(alg = "hc" /\ last_op' = "step") =>
             /\ step_stage \in {1, 2, 3}
             /\ step_stage = 1 =>
                   /\ current_node' = current_node /\ best_neighbor' = best_neighbor
                   /\ IF edges[current_node] = << >>
                      THEN completed' /\ step_stage' = 1
                      ELSE ~completed' /\ step_stage' = 2
             /\ step_stage = 2 =>
                   /\ current_node' = current_node /\ ~completed' /\ step_stage' = 3
             /\ step_stage = 3 =>
                   /\ best_neighbor' = best_neighbor
                   /\ IF best_neighbor # None
                      THEN current_node' = best_neighbor /\ ~completed' /\ step_stage' = 1
                      ELSE current_node' = current_node /\ completed' /\ step_stage' = 3
             /\ current_node' # current_node => step_stage = 3
             /\ completed' =>
                   \/ step_stage = 3 /\ best_neighbor = None
                   \/ step_stage = 1 /\ edges[current_node] = << >>]_vars

\* C35 witness: the climber has moved onto the best neighbor and stands in
\* the Survey stage again.
HCStageOrderWitness ==
    /\ alg = "hc" /\ last_op = "step" /\ running /\ ~completed
    /\ step_stage = 1 /\ best_neighbor = current_node
    /\ message[1] = "Moved to Node. Press SPACE to continue."

\* C36: Single climber.  In every reachable state of the hill-climbing
\* engine with running = TRUE exactly one node has state current or peak,
\* that node is current_node, its state is current while the climb is not
\* completed and peak once it is, and every node with state neighbor, better
\* or worse is a neighbor of current_node.
SingleClimber ==
    (alg = "hc" /\ running) =>
        /\ current_node \in NodeSet(Self)
        /\ {n \in NodeSet(Self) : state[n] \in {"current", "peak"}} = {current_node}
        /\ state[current_node] = IF completed THEN "peak" ELSE "current"
        /\ \A n \in NodeSet(Self) :
              state[n] \in {"neighbor", "better", "worse"} =>
                  n \in NeighborsOf(Self, current_node)

\* C36 witness: the climber has moved and surveyed again; the node it left is
\* marked as a neighbor and a node that is not a neighbor is unmarked.
SingleClimberWitness ==
    /\ alg = "hc" /\ running /\ ~completed /\ last_op = "step" /\ step_stage = 2
    /\ best_neighbor = current_node
    /\ \E n \in NodeSet(Self) : state[n] = "neighbor"
    /\ \E n \in NodeSet(Self) \ {current_node} :
          n \notin NeighborsOf(Self, current_node) /\ state[n] = "default"

====
